---------------------------- MODULE Spec2Model ----------------------------
(***************************************************************************)
(* A model of the todo command-line program of src/src/main.rs: the task   *)
(* store (TodoList), the JSON codec (load_todos / save_todos) and the      *)
(* command dispatcher (main).  One invocation of the program is one        *)
(* load -> mutate -> save cycle.                                           *)
(*                                                                         *)
(* An id argument and a key of the JSON object are sequences of            *)
(* one-character strings, so that their decimal conversions are computed.  *)
(***************************************************************************)
EXTENDS Integers, Sequences, FiniteSets, TLC

VARIABLES
    file,      \* the persisted file ~/.todo_cli.json
    last,      \* history: what the last invocation did
    issued,    \* history: the ids add_item has returned, in order
    inserted,  \* history: the number of successful insertions
    pc,        \* stepwise delete: "idle" or "deleting"
    mem,       \* stepwise delete: the items of the invocation in flight
    stack,     \* stepwise delete: the call stack of delete_item
    retval,    \* stepwise delete: what the frame that returned last returned
    race       \* two invocations that run at once: where each of them is

vars == <<file, last, issued, inserted, pc, mem, stack, retval, race>>

(***************************************************************************)
(* Bounds of the model.                                                    *)
(***************************************************************************)
\* Insertions stop once next_id exceeds MaxId.
MaxId == 3

\* The decimal text of u32::MAX, the largest id an argument or a JSON number
\* can hold.  The range check is made on the text.
U32MaxDec == <<"4", "2", "9", "4", "9", "6", "7", "2", "9", "5">>

\* Frames the call stack holds before the process aborts.  It stands for
\* the main thread's stack; it exceeds every depth an acyclic hierarchy of
\* the model has, so it is reached only by a recursion that does not end.
StackLimit == MaxId + 2

(***************************************************************************)
(* Option<u32>                                                             *)
(***************************************************************************)
None == <<>>
Some(p) == <<p>>

(***************************************************************************)
(* Text: decimal numbers and the arguments of the command line.            *)
(***************************************************************************)
DigitChars == <<"0", "1", "2", "3", "4", "5", "6", "7", "8", "9">>

IsDigit(c) == \E i \in 1..10 : DigitChars[i] = c

DigitVal(c) == (CHOOSE i \in 1..10 : DigitChars[i] = c) - 1

\* The decimal text of n, as Display for u32 and serde_json write it.
RECURSIVE ToDec(_)
ToDec(n) ==
    IF n < 10 THEN <<DigitChars[n + 1]>>
    ELSE Append(ToDec(n \div 10), DigitChars[(n % 10) + 1])

RECURSIVE DecVal(_)
DecVal(s) ==
    IF s = <<>> THEN 0
    ELSE 10 * DecVal(SubSeq(s, 1, Len(s) - 1)) + DigitVal(s[Len(s)])

\* a <= b for two digit texts of one length.
RECURSIVE DecLeq(_, _)
DecLeq(a, b) ==
    IF a = <<>> THEN TRUE
    ELSE IF DigitVal(a[1]) # DigitVal(b[1]) THEN DigitVal(a[1]) < DigitVal(b[1])
    ELSE DecLeq(Tail(a), Tail(b))

RECURSIVE StripZeros(_)
StripZeros(s) ==
    IF Len(s) > 1 /\ s[1] = "0" THEN StripZeros(Tail(s)) ELSE s

\* Whether the digits s denote a number that fits a u32.
FitsU32(s) ==
    LET t == StripZeros(s)
    IN  Len(t) < Len(U32MaxDec) \/ (Len(t) = Len(U32MaxDec) /\ DecLeq(t, U32MaxDec))

\* str::parse::<u32>: an optional "+", then one digit or more, in range.
ParseU32(s) ==
    LET body == IF s # <<>> /\ s[1] = "+" THEN Tail(s) ELSE s
    IN  IF body # <<>> /\ (\A i \in 1..Len(body) : IsDigit(body[i]))
           /\ FitsU32(body)
        THEN [ok |-> TRUE, val |-> DecVal(body)]
        ELSE [ok |-> FALSE, val |-> 0]

\* args[k..].join(" ")
RECURSIVE Join(_)
Join(words) ==
    IF words = <<>> THEN ""
    ELSE IF Len(words) = 1 THEN words[1]
    ELSE words[1] \o " " \o Join(Tail(words))

\* chrono::Utc::now().format("%Y-%m-%d %H:%M:%S") for a time t seconds into
\* the first minute of 2024.
FormatTime(t) ==
    "2024-01-01 00:00:" \o DigitChars[(t \div 10) + 1] \o DigitChars[(t % 10) + 1]

(***************************************************************************)
(* The task store: struct TodoItem, struct TodoList and its methods.       *)
(***************************************************************************)
TodoItem(id, text, completed, parent_id, created_at) ==
    [id |-> id, text |-> text, completed |-> completed,
     parent_id |-> parent_id, created_at |-> created_at]

TodoList(items, next_id) == [items |-> items, next_id |-> next_id]

New == TodoList(<<>>, 1)

Insert(items, k, item) ==
    [j \in DOMAIN items \cup {k} |-> IF j = k THEN item ELSE items[j]]

Remove(items, k) == [j \in DOMAIN items \ {k} |-> items[j]]

\* add_item as it would be if it took the id from the number of items.
AddItemByCount(todos, text, parent_id, now) ==
    LET id == Cardinality(DOMAIN todos.items) + 1
        item == TodoItem(id, text, FALSE, parent_id, FormatTime(now))
    IN  [todos |-> TodoList(Insert(todos.items, id, item), id + 1), id |-> id]

\* add_item as it would be without next_id += 1.
AddItemNoIncrement(todos, text, parent_id, now) ==
    LET id == todos.next_id
        item == TodoItem(id, text, FALSE, parent_id, FormatTime(now))
    IN  [todos |-> TodoList(Insert(todos.items, id, item), todos.next_id),
         id |-> id]

\* add_item.  MaxId keeps next_id far below u32::MAX, where next_id += 1
\* overflows.
AddItem(todos, text, parent_id, now) ==
    LET id == todos.next_id
        item == TodoItem(id, text, FALSE, parent_id, FormatTime(now))
    IN  [todos |-> TodoList(Insert(todos.items, id, item), todos.next_id + 1),
         id |-> id]

\* complete_item as it would be if it flipped the flag.
CompleteItemToggle(todos, id) ==
    IF id \in DOMAIN todos.items
    THEN [todos |-> [todos EXCEPT !.items[id].completed = ~@], ret |-> TRUE]
    ELSE [todos |-> todos, ret |-> FALSE]

CompleteItem(todos, id) ==
    IF id \in DOMAIN todos.items
    THEN [todos |-> [todos EXCEPT !.items[id].completed = TRUE], ret |-> TRUE]
    ELSE [todos |-> todos, ret |-> FALSE]

\* uncomplete_item as it would be if it left the flag alone.
UncompleteItemNoFlag(todos, id) ==
    [todos |-> todos, ret |-> id \in DOMAIN todos.items]

UncompleteItem(todos, id) ==
    IF id \in DOMAIN todos.items
    THEN [todos |-> [todos EXCEPT !.items[id].completed = FALSE], ret |-> TRUE]
    ELSE [todos |-> todos, ret |-> FALSE]

\* The collection of sub_items as it would be with is_some() for the
\* comparison with Some(id).
SubIdsOfAnyParent(items, id) ==
    {items[k].id : k \in {j \in DOMAIN items : items[j].parent_id # None}}

\* The ids delete_item collects before it recurses.
SubIds(items, id) ==
    {items[k].id : k \in {j \in DOMAIN items : items[j].parent_id = Some(id)}}

\* delete_item as it would be if it removed the item alone.
DeleteRecSelfOnly(items, id, depth) ==
    [items |-> Remove(items, id), ret |-> id \in DOMAIN items, overflow |-> FALSE]

\* delete_item as it would be if it removed the sub-items without recursing.
DeleteRecChildrenOnly(items, id, depth) ==
    [items |-> [k \in DOMAIN items \ ({id} \cup SubIds(items, id)) |-> items[k]],
     ret |-> id \in DOMAIN items,
     overflow |-> FALSE]

\* delete_item, with the depth of the call: a call past StackLimit overflows
\* the stack and the process aborts.  The loop over sub_items runs in the
\* order DeleteAll picks.
RECURSIVE DeleteRec(_, _, _), DeleteAll(_, _, _)
DeleteRec(items, id, depth) ==
    IF depth > StackLimit
    THEN [items |-> items, ret |-> FALSE, overflow |-> TRUE]
    ELSE LET r == DeleteAll(items, SubIds(items, id), depth + 1)
         IN  IF r.overflow THEN r
             ELSE [items |-> Remove(r.items, id),
                   ret |-> id \in DOMAIN r.items,
                   overflow |-> FALSE]

DeleteAll(items, ids, depth) ==
    IF ids = {} THEN [items |-> items, ret |-> FALSE, overflow |-> FALSE]
    ELSE LET sub_id == CHOOSE x \in ids : TRUE
             r == DeleteRec(items, sub_id, depth)
         IN  IF r.overflow THEN r
             ELSE DeleteAll(r.items, ids \ {sub_id}, depth)

\* delete_item as it would be if it gave back the id of the task it
\* removed when that id was the one issued last.
DeleteItemReusesId(todos, id) ==
    LET r == DeleteRec(todos.items, id, 1)
    IN  [todos |-> TodoList(r.items,
                            IF r.ret /\ id + 1 = todos.next_id
                            THEN id ELSE todos.next_id),
         ret |-> r.ret, overflow |-> r.overflow]

DeleteItem(todos, id) ==
    LET r == DeleteRec(todos.items, id, 1)
    IN  [todos |-> [todos EXCEPT !.items = r.items],
         ret |-> r.ret, overflow |-> r.overflow]

\* The sequences that hold every element of the set S once: the orders in
\* which a HashMap may iterate over S.
RECURSIVE Orders(_)
Orders(S) ==
    IF S = {} THEN {<<>>}
    ELSE UNION {{<<x>> \o t : t \in Orders(S \ {x})} : x \in S}

\* self.items.values()
Values(items) == {items[k] : k \in DOMAIN items}

\* collect() of the filtered values S, in the order the HashMap iterates in.
Collect(S) == CHOOSE v \in Orders(S) : TRUE

\* One step of the sort: item goes behind the items whose id is not greater.
InsertById(sorted, item) ==
    LET n == Cardinality({i \in DOMAIN sorted : sorted[i].id <= item.id})
    IN  SubSeq(sorted, 1, n) \o <<item>> \o SubSeq(sorted, n + 1, Len(sorted))

\* items.sort_by_key(|item| item.id): a stable sort.
RECURSIVE SortByKey(_)
SortByKey(v) ==
    IF v = <<>> THEN <<>>
    ELSE InsertById(SortByKey(SubSeq(v, 1, Len(v) - 1)), v[Len(v)])

\* get_root_items as it would be without the filter.
GetRootItemsAll(todos) ==
    SortByKey(Collect(Values(todos.items)))

GetRootItems(todos) ==
    SortByKey(Collect({item \in Values(todos.items) : item.parent_id = None}))

GetSubItems(todos, parent_id) ==
    SortByKey(Collect({item \in Values(todos.items) :
                           item.parent_id = Some(parent_id)}))

\* "  ".repeat(indent_level)
RECURSIVE Repeat(_, _)
Repeat(s, n) == IF n = 0 THEN "" ELSE s \o Repeat(s, n - 1)

\* The line display_item prints for item: the arguments of
\* println!("{}[{}] {} {}", indent, item.id, status, item.text).  The status
\* is written "x" for the check mark and "o" for the circle.
Line(item, indent_level) ==
    [indent |-> Repeat("  ", indent_level),
     id |-> item.id,
     status |-> IF item.completed THEN "x" ELSE "o",
     text |-> item.text]

\* The line display prints when there is no root item.
NoTodosLine ==
    [indent |-> "", id |-> 0, status |-> "",
     text |-> "No todos found. Use 'todo add <text>' to add a new todo."]

\* display as it would be if it printed the root items alone.
DisplayRootsOnly(todos) ==
    LET root_items == GetRootItems(todos)
    IN  IF root_items = <<>> THEN <<NoTodosLine>>
        ELSE [i \in DOMAIN root_items |-> Line(root_items[i], 0)]

\* display_item: the lines it prints, and DisplayItems for the loop that
\* calls it on every item of a list in turn.
RECURSIVE DisplayItem(_, _, _), DisplayItems(_, _, _)
DisplayItem(todos, item, indent_level) ==
    <<Line(item, indent_level)>>
        \o DisplayItems(todos, GetSubItems(todos, item.id), indent_level + 1)

DisplayItems(todos, list, indent_level) ==
    IF list = <<>> THEN <<>>
    ELSE DisplayItem(todos, list[1], indent_level)
             \o DisplayItems(todos, Tail(list), indent_level)

\* display: the lines it prints.
Display(todos) ==
    LET root_items == GetRootItems(todos)
    IN  IF root_items = <<>> THEN <<NoTodosLine>>
        ELSE DisplayItems(todos, root_items, 0)

(***************************************************************************)
(* The storage codec.  A document is the JSON value serde_json writes for  *)
(* a TodoList: next_id and the members of the "items" object, each with    *)
(* its key (a string: the decimal text of the u32) and the JSON value of   *)
(* every field of the TodoItem.  The members are a set: the object is      *)
(* written in the HashMap's iteration order and read back into a HashMap,  *)
(* which keeps no order.                                                   *)
(***************************************************************************)
JsonNumber(n) == [t |-> "number", n |-> n, s |-> ""]
JsonString(s) == [t |-> "string", n |-> 0, s |-> s]
JsonBool(b) == [t |-> IF b THEN "true" ELSE "false", n |-> 0, s |-> ""]
JsonNull == [t |-> "null", n |-> 0, s |-> ""]

\* Option<u32> as it would be written with 0 for None.
JsonOptionZero(o) == IF o = None THEN JsonNumber(0) ELSE JsonNumber(o[1])

\* Option<u32>: None is null, Some(p) the number p.
JsonOption(o) == IF o = None THEN JsonNull ELSE JsonNumber(o[1])

AsU32(j) == [ok |-> j.t = "number", val |-> j.n]
AsString(j) == [ok |-> j.t = "string", val |-> j.s]
AsBool(j) == [ok |-> j.t \in {"true", "false"}, val |-> (j.t = "true")]
AsOption(j) ==
    IF j.t = "null" THEN [ok |-> TRUE, val |-> None]
    ELSE [ok |-> j.t = "number", val |-> Some(j.n)]

\* A key of the "items" object read as a u32: digits, no leading zero, in
\* range.
ParseKey(k) ==
    IF k # <<>> /\ (\A i \in 1..Len(k) : IsDigit(k[i]))
       /\ (Len(k) = 1 \/ k[1] # "0")
       /\ FitsU32(k)
    THEN [ok |-> TRUE, val |-> DecVal(k)]
    ELSE [ok |-> FALSE, val |-> 0]

\* One member of the "items" object.
JsonMember(k, item) ==
    [key |-> ToDec(k),
     id |-> JsonNumber(item.id),
     text |-> JsonString(item.text),
     completed |-> JsonBool(item.completed),
     parent_id |-> JsonOption(item.parent_id),
     created_at |-> JsonString(item.created_at)]

\* serde_json::to_string_pretty(todos)
ToJson(todos) ==
    [items |-> {JsonMember(k, todos.items[k]) : k \in DOMAIN todos.items},
     next_id |-> JsonNumber(todos.next_id)]

MemberOk(m) ==
    /\ ParseKey(m.key).ok
    /\ AsU32(m.id).ok
    /\ AsString(m.text).ok
    /\ AsBool(m.completed).ok
    /\ AsOption(m.parent_id).ok
    /\ AsString(m.created_at).ok

MemberItem(m) ==
    TodoItem(AsU32(m.id).val,
             AsString(m.text).val,
             AsBool(m.completed).val,
             AsOption(m.parent_id).val,
             AsString(m.created_at).val)

\* serde_json::from_str::<TodoList>(contents).  The documents of the model
\* hold no two members with one key.
FromJson(doc) ==
    IF AsU32(doc.next_id).ok /\ (\A m \in doc.items : MemberOk(m))
    THEN LET keys == {ParseKey(m.key).val : m \in doc.items}
             at(k) == CHOOSE m \in doc.items : ParseKey(m.key).val = k
         IN  [ok |-> TRUE,
              val |-> TodoList([k \in keys |-> MemberItem(at(k))],
                               AsU32(doc.next_id).val)]
    ELSE [ok |-> FALSE, val |-> New]

\* The empty string: contents that hold no JSON value.
NoDoc == [items |-> {}, next_id |-> JsonNull]

\* The number of bytes serde_json writes for a value of the model (its
\* strings need no escape).
JsonLen(j) ==
    CASE j.t = "number" -> Len(ToDec(j.n))
      [] j.t = "string" -> Len(j.s) + 2
      [] j.t = "true" -> 4
      [] j.t = "false" -> 5
      [] j.t = "null" -> 4

\* The bytes of one member as to_string_pretty lays it out: the line of the
\* key at an indent of 4, the five lines of the fields at an indent of 6,
\* each with its newline and all but the last with a comma, and the closing
\* brace at an indent of 4.
MemberLen(m) ==
    (Len(m.key) + 10)
    + (JsonLen(m.id) + 14)
    + (JsonLen(m.text) + 16)
    + (JsonLen(m.completed) + 21)
    + (JsonLen(m.parent_id) + 21)
    + (JsonLen(m.created_at) + 21)
    + 5

RECURSIVE MembersLen(_)
MembersLen(ms) ==
    IF ms = {} THEN 0
    ELSE LET m == CHOOSE x \in ms : TRUE
         IN  MemberLen(m) + MembersLen(ms \ {m})

\* The bytes of the document: the braces, the "items" object (written {}
\* when it is empty, else its members with a comma between two and a
\* newline after each) and the line of next_id.
PrettyLen(doc) ==
    IF doc.items = {}
    THEN 2 + 15 + (JsonLen(doc.next_id) + 14) + 1
    ELSE 2 + 13 + MembersLen(doc.items) + (2 * Cardinality(doc.items) - 1)
           + 5 + (JsonLen(doc.next_id) + 14) + 1

\* No file at get_data_file().  A file is readable when fs::read_to_string
\* returns its contents; extra is the number of bytes the file holds behind
\* its document.
Absent == [exists |-> FALSE, readable |-> TRUE, doc |-> NoDoc, extra |-> 0]

\* The bytes in the file f.
FileLen(f) ==
    IF ~f.exists \/ f.doc = NoDoc THEN 0 ELSE PrettyLen(f.doc) + f.extra

\* load_todos as it would be if it kept what parses of a malformed file.
LoadTodosLenient(f) ==
    IF f.exists /\ f.readable
    THEN LET good == {m \in f.doc.items : MemberOk(m)}
         IN  FromJson([items |-> good,
                       next_id |-> IF AsU32(f.doc.next_id).ok
                                   THEN f.doc.next_id ELSE JsonNumber(1)]).val
    ELSE New

\* load_todos: the empty list when the file is absent or does not parse.  A
\* file that cannot be read gives the empty string (unwrap_or_default),
\* which does not parse; nor do contents with bytes behind the document
\* (they end in a brace: trailing characters).
LoadTodos(f) ==
    IF f.exists
    THEN LET contents == IF f.readable THEN f.doc ELSE NoDoc
             r == FromJson(contents)
         IN  IF r.ok /\ f.extra = 0 THEN r.val ELSE New
    ELSE New

\* File::create(path) in fs::write: the file is there and empty.
Truncated == [exists |-> TRUE, readable |-> TRUE, doc |-> NoDoc, extra |-> 0]

\* write_all(contents) in fs::write, on the handle File::create returned:
\* the bytes of doc go to the start of the file f, and what f holds behind
\* them stays.
WriteAll(f, doc) ==
    [exists |-> TRUE, readable |-> f.readable, doc |-> doc,
     extra |-> IF FileLen(f) > PrettyLen(doc) THEN FileLen(f) - PrettyLen(doc)
                                              ELSE 0]

\* save_todos: the file as fs::write leaves it when it succeeds on a path
\* that held no file or a file of text, and no other process writes
\* meanwhile.
SaveTodos(todos) == WriteAll(Truncated, ToJson(todos))

\* save_todos on the file f: what fs::write can do.  On a path that
\* read_to_string could not read, the write replaces the contents (they were
\* no UTF-8 text), or replaces them and the file stays unreadable (no
\* permission to read), or fails (a directory, no permission to write) and
\* expect() panics.
SaveOutcomes(f, todos) ==
    IF f.exists /\ ~f.readable
    THEN {[ok |-> TRUE, file |-> SaveTodos(todos)],
          [ok |-> TRUE, file |-> [SaveTodos(todos) EXCEPT !.readable = FALSE]],
          [ok |-> FALSE, file |-> f]}
    ELSE {[ok |-> TRUE, file |-> SaveTodos(todos)]}

(***************************************************************************)
(* The command dispatcher.  argv[1] is the program's name, argv[2] the     *)
(* verb (Rust's args[0] and args[1]).  An outcome is the list in memory as *)
(* the invocation ends, whether save_todos ran, whether the invocation     *)
(* wrote to the error stream, what it reported, the id argument it parsed  *)
(* (0 when it parsed none) and the id it reported.                         *)
(***************************************************************************)
Outcome(todos, saved, err, what, arg, id) ==
    [todos |-> todos, saved |-> saved, err |-> err, what |-> what,
     arg |-> arg, id |-> id]

CmdList(todos) == Outcome(todos, FALSE, FALSE, "listed", 0, 0)

CmdAdd(argv, todos, now) ==
    IF Len(argv) < 3 THEN Outcome(todos, FALSE, TRUE, "missing_arg", 0, 0)
    ELSE LET text == Join(SubSeq(argv, 3, Len(argv)))
             r == AddItem(todos, text, None, now)
         IN  Outcome(r.todos, TRUE, FALSE, "added", 0, r.id)

\* The sub arm as it would be without the check of the parent.
CmdSubUnchecked(argv, todos, now) ==
    IF Len(argv) < 4 THEN Outcome(todos, FALSE, TRUE, "missing_arg", 0, 0)
    ELSE LET p == ParseU32(argv[3])
         IN  IF ~p.ok THEN Outcome(todos, FALSE, TRUE, "invalid_id", 0, 0)
             ELSE LET text == Join(SubSeq(argv, 4, Len(argv)))
                      r == AddItem(todos, text, Some(p.val), now)
                  IN  Outcome(r.todos, TRUE, FALSE, "added_sub", p.val, r.id)

CmdSub(argv, todos, now) ==
    IF Len(argv) < 4 THEN Outcome(todos, FALSE, TRUE, "missing_arg", 0, 0)
    ELSE LET p == ParseU32(argv[3])
         IN  IF ~p.ok THEN Outcome(todos, FALSE, TRUE, "invalid_id", 0, 0)
             ELSE IF p.val \notin DOMAIN todos.items
             THEN Outcome(todos, FALSE, TRUE, "parent_not_found", p.val, p.val)
             ELSE LET text == Join(SubSeq(argv, 4, Len(argv)))
                      r == AddItem(todos, text, Some(p.val), now)
                  IN  Outcome(r.todos, TRUE, FALSE, "added_sub", p.val, r.id)

CmdDone(argv, todos) ==
    IF Len(argv) < 3 THEN Outcome(todos, FALSE, TRUE, "missing_arg", 0, 0)
    ELSE LET p == ParseU32(argv[3])
         IN  IF ~p.ok THEN Outcome(todos, FALSE, TRUE, "invalid_id", 0, 0)
             ELSE LET r == CompleteItem(todos, p.val)
                  IN  IF r.ret
                      THEN Outcome(r.todos, TRUE, FALSE, "completed", p.val, p.val)
                      ELSE Outcome(r.todos, FALSE, TRUE, "not_found", p.val, p.val)

CmdUndone(argv, todos) ==
    IF Len(argv) < 3 THEN Outcome(todos, FALSE, TRUE, "missing_arg", 0, 0)
    ELSE LET p == ParseU32(argv[3])
         IN  IF ~p.ok THEN Outcome(todos, FALSE, TRUE, "invalid_id", 0, 0)
             ELSE LET r == UncompleteItem(todos, p.val)
                  IN  IF r.ret
                      THEN Outcome(r.todos, TRUE, FALSE, "uncompleted", p.val, p.val)
                      ELSE Outcome(r.todos, FALSE, TRUE, "not_found", p.val, p.val)

\* The delete arm as it would be if it saved whatever delete_item returned.
AfterDeleteAlwaysSaves(r, id) ==
    IF r.overflow THEN Outcome(r.todos, FALSE, TRUE, "stack_overflow", id, id)
    ELSE IF r.ret THEN Outcome(r.todos, TRUE, FALSE, "deleted", id, id)
    ELSE Outcome(r.todos, TRUE, TRUE, "not_found", id, id)

\* What the delete arm does once delete_item has returned r.  A stack
\* overflow in delete_item aborts the process: nothing is saved.
AfterDelete(r, id) ==
    IF r.overflow THEN Outcome(r.todos, FALSE, TRUE, "stack_overflow", id, id)
    ELSE IF r.ret THEN Outcome(r.todos, TRUE, FALSE, "deleted", id, id)
    ELSE Outcome(r.todos, FALSE, TRUE, "not_found", id, id)

CmdDelete(argv, todos) ==
    IF Len(argv) < 3 THEN Outcome(todos, FALSE, TRUE, "missing_arg", 0, 0)
    ELSE LET p == ParseU32(argv[3])
         IN  IF ~p.ok THEN Outcome(todos, FALSE, TRUE, "invalid_id", 0, 0)
             ELSE AfterDelete(DeleteItem(todos, p.val), p.val)

CmdHelp(todos) == Outcome(todos, FALSE, FALSE, "help", 0, 0)

CmdUnknown(todos) == Outcome(todos, FALSE, TRUE, "unknown_command", 0, 0)

\* fn main, after load_todos.
Main(argv, todos, now) ==
    IF Len(argv) < 2 THEN CmdList(todos)
    ELSE CASE argv[2] \in {"list", "ls"} -> CmdList(todos)
           [] argv[2] = "add" -> CmdAdd(argv, todos, now)
           [] argv[2] = "sub" -> CmdSub(argv, todos, now)
           [] argv[2] = "done" -> CmdDone(argv, todos)
           [] argv[2] = "undone" -> CmdUndone(argv, todos)
           [] argv[2] \in {"delete", "rm"} -> CmdDelete(argv, todos)
           [] argv[2] \in {"help", "--help", "-h"} -> CmdHelp(todos)
           [] OTHER -> CmdUnknown(todos)

(***************************************************************************)
(* The inputs of an invocation.                                            *)
(***************************************************************************)
Prog == "todo"

\* Id arguments: the ids the store can issue, one more, and no number.
IdArgs == {ToDec(n) : n \in 1..(MaxId + 1)} \cup {<<"x">>}

\* The words after the verb of add, and after the parent id of sub.  The
\* program stores and prints a text and never reads it, so one text for
\* each verb stands for all.
AddWords == <<"a">>
SubWords == <<"b", "c">>

\* The clock readings of add_item, in seconds; created_at is stored and
\* never read either.
Times == {7}

(***************************************************************************)
(* The state machine: an action is one whole invocation of the program.    *)
(* last records the invocation that ran last: the arm of main's match it   *)
(* took, its outcome, the file it found (fbefore), the list in memory as   *)
(* it ended (after) and the lines display printed (shown).  last.pair is on when the invocation is a          *)
(* successful undone that follows at once a successful done of the same    *)
(* id, and then holds the file that done found.                            *)
(***************************************************************************)
NoPair == [on |-> FALSE, start |-> Absent]

NoInvocation ==
    [arm |-> "", what |-> "none", arg |-> 0, id |-> 0, saved |-> FALSE,
     err |-> FALSE, fbefore |-> Absent, after |-> New, pair |-> NoPair,
     shown |-> <<>>]

\* The two invocations that may run at once.
Procs == {1, 2}

\* An invocation that has not started: where it is (pc), its arguments, the
\* list it loaded, its outcome, and whether it loaded before any save began
\* (fresh).  saving: a save has begun; overlap: a save began while another
\* was between its File::create and its write_all; wrote: the invocations
\* in the order of their write_all; start: the file as the first one loaded.
NoRace ==
    [proc |-> [p \in Procs |->
                 [pc |-> "start", argv |-> <<>>, todos |-> New, fresh |-> FALSE,
                  r |-> Outcome(New, FALSE, FALSE, "none", 0, 0)]],
     saving |-> FALSE, overlap |-> FALSE, wrote |-> <<>>, start |-> Absent]

Idle ==
    /\ pc = "idle"
    /\ mem = New
    /\ stack = <<>>
    /\ retval = FALSE
    /\ race = NoRace

Init ==
    /\ file = Absent
    /\ last = NoInvocation
    /\ issued = <<>>
    /\ inserted = 0
    /\ Idle

Inserting(r) == r.what \in {"added", "added_sub"}

\* The arm of main's match an invocation takes.
Arm(argv) ==
    IF Len(argv) < 2 THEN "none"
    ELSE CASE argv[2] \in {"list", "ls"} -> "list"
           [] argv[2] \in {"add", "sub", "done", "undone"} -> argv[2]
           [] argv[2] \in {"delete", "rm"} -> "delete"
           [] argv[2] \in {"help", "--help", "-h"} -> "help"
           [] OTHER -> "unknown"

Pair(r) ==
    IF r.what = "uncompleted" /\ last.what = "completed" /\ last.arg = r.arg
    THEN [on |-> TRUE, start |-> last.fbefore]
    ELSE NoPair

\* The end of an invocation with outcome r: save_todos when the command
\* calls it, and the history.  When save_todos panics the invocation ends
\* there, before it confirms anything.
Finish(arm, r) ==
    \E w \in (IF r.saved THEN SaveOutcomes(file, r.todos)
                         ELSE {[ok |-> TRUE, file |-> file]}) :
        /\ file' = w.file
        /\ last' = IF w.ok
                   THEN [arm |-> arm, what |-> r.what, arg |-> r.arg,
                         id |-> r.id, saved |-> r.saved, err |-> r.err,
                         fbefore |-> file, after |-> r.todos, pair |-> Pair(r),
                         shown |-> IF r.what = "listed" THEN Display(r.todos)
                                                        ELSE <<>>]
                   ELSE [arm |-> arm, what |-> "save_failed", arg |-> r.arg,
                         id |-> 0, saved |-> FALSE, err |-> TRUE,
                         fbefore |-> file, after |-> r.todos, pair |-> NoPair,
                         shown |-> <<>>]
        /\ issued' = IF Inserting(r) /\ w.ok THEN Append(issued, r.id) ELSE issued
        /\ inserted' = IF Inserting(r) /\ w.ok THEN inserted + 1 ELSE inserted

\* One invocation, from the list load_todos returned.  The insertions stop
\* after MaxId of them, and once next_id exceeds MaxId.
Invoke(todos, argv, now) ==
    \E r \in {Main(argv, todos, now)} :
        /\ pc = "idle"
        /\ race = NoRace
        /\ Inserting(r) => todos.next_id <= MaxId /\ inserted < MaxId
        /\ Finish(Arm(argv), r)
        /\ UNCHANGED <<pc, mem, stack, retval, race>>

NoVerb ==
    \E todos \in {LoadTodos(file)}, now \in Times : Invoke(todos, <<Prog>>, now)

List ==
    \E todos \in {LoadTodos(file)}, now \in Times, v \in {"list", "ls"} :
        Invoke(todos, <<Prog, v>>, now)

Add ==
    \E todos \in {LoadTodos(file)}, now \in Times, words \in {<<>>, AddWords} :
        Invoke(todos, <<Prog, "add">> \o words, now)

Sub ==
    \E todos \in {LoadTodos(file)}, now \in Times,
       tail \in {<<>>, <<ToDec(1)>>} \cup {<<i>> \o SubWords : i \in IdArgs} :
        Invoke(todos, <<Prog, "sub">> \o tail, now)

Done ==
    \E todos \in {LoadTodos(file)}, now \in Times,
       tail \in {<<>>} \cup {<<i>> : i \in IdArgs} :
        Invoke(todos, <<Prog, "done">> \o tail, now)

Undone ==
    \E todos \in {LoadTodos(file)}, now \in Times,
       tail \in {<<>>} \cup {<<i>> : i \in IdArgs} :
        Invoke(todos, <<Prog, "undone">> \o tail, now)

\* The argument vectors of delete and of its alias rm.
DeleteArgvs ==
    {<<Prog, "delete">> \o tail : tail \in {<<>>} \cup {<<i>> : i \in IdArgs}}
    \cup {<<Prog, "rm", ToDec(1)>>}

Delete ==
    \E todos \in {LoadTodos(file)}, now \in Times, argv \in DeleteArgvs :
        Invoke(todos, argv, now)

Help ==
    \E todos \in {LoadTodos(file)}, now \in Times, v \in {"help", "--help", "-h"} :
        Invoke(todos, <<Prog, v>>, now)

Unknown ==
    \E todos \in {LoadTodos(file)}, now \in Times :
        Invoke(todos, <<Prog, "frobnicate">>, now)

Next ==
    \/ NoVerb
    \/ List
    \/ Add
    \/ Sub
    \/ Done
    \/ Undone
    \/ Delete
    \/ Help
    \/ Unknown

Spec == Init /\ [][Next]_vars

(***************************************************************************)
(* delete_item step by step.  The delete arm runs as a call stack: a frame *)
(* holds the id of its call and the sub_items it has still to visit,       *)
(* collected as the call starts.  The loop takes them in any order, as the *)
(* HashMap's iteration gives them.  The other commands stay one step.      *)
(***************************************************************************)
BecomeIdle ==
    /\ pc' = "idle"
    /\ mem' = New
    /\ stack' = <<>>
    /\ retval' = FALSE
    /\ UNCHANGED race

Frame(id, items) == [id |-> id, sub_items |-> SubIds(items, id)]

Top == stack[Len(stack)]

\* The history while delete_item runs on id.
Running(todos, id) ==
    [NoInvocation EXCEPT !.arm = "delete", !.what = "running", !.arg = id,
                         !.id = id, !.fbefore = file, !.after = todos]

\* The delete arm up to its call of delete_item; an invocation that returns
\* before the call ends here.
DeleteStart ==
    \E todos \in {LoadTodos(file)}, now \in Times, argv \in DeleteArgvs :
        /\ pc = "idle"
        /\ IF Len(argv) < 3 \/ ~ParseU32(argv[3]).ok
           THEN Invoke(todos, argv, now)
           ELSE /\ pc' = "deleting"
                /\ mem' = todos
                /\ stack' = <<Frame(ParseU32(argv[3]).val, todos.items)>>
                /\ retval' = FALSE
                /\ last' = Running(todos, ParseU32(argv[3]).val)
                /\ UNCHANGED <<file, issued, inserted, race>>

\* self.delete_item(sub_id) in the loop: a new frame, or the process aborts
\* when the stack is full.
DeleteCall ==
    /\ pc = "deleting"
    /\ \E sub_id \in Top.sub_items :
          IF Len(stack) >= StackLimit
          THEN /\ Finish("delete",
                         AfterDelete([todos |-> mem, ret |-> FALSE,
                                      overflow |-> TRUE], stack[1].id))
               /\ BecomeIdle
          ELSE /\ stack' = Append([stack EXCEPT ![Len(stack)].sub_items =
                                                    @ \ {sub_id}],
                                  Frame(sub_id, mem.items))
               /\ UNCHANGED <<file, last, issued, inserted, pc, mem, retval, race>>

\* self.items.remove(&id).is_some() in a nested call, and its return.
DeleteReturn ==
    /\ pc = "deleting"
    /\ Len(stack) > 1
    /\ Top.sub_items = {}
    /\ retval' = (Top.id \in DOMAIN mem.items)
    /\ mem' = [mem EXCEPT !.items = Remove(@, Top.id)]
    /\ stack' = SubSeq(stack, 1, Len(stack) - 1)
    /\ UNCHANGED <<file, last, issued, inserted, pc, race>>

\* The same in the outermost call, and the rest of the delete arm.
DeleteEnd ==
    /\ pc = "deleting"
    /\ Len(stack) = 1
    /\ Top.sub_items = {}
    /\ Finish("delete",
              AfterDelete([todos |-> [mem EXCEPT !.items = Remove(@, Top.id)],
                           ret |-> Top.id \in DOMAIN mem.items,
                           overflow |-> FALSE], Top.id))
    /\ BecomeIdle

NextDel ==
    \/ NoVerb
    \/ List
    \/ Add
    \/ Sub
    \/ Done
    \/ Undone
    \/ Help
    \/ Unknown
    \/ DeleteStart
    \/ DeleteCall
    \/ DeleteReturn
    \/ DeleteEnd

\* A process that is running delete_item keeps running.
SpecDel ==
    Init /\ [][NextDel]_vars /\ WF_vars(DeleteCall \/ DeleteReturn \/ DeleteEnd)

(***************************************************************************)
(* The program started on a file it did not write.  The files are the      *)
(* parseable documents over the keys below MaxId in which every key is its *)
(* item's id and a parent_id is any id up to MaxId or none: a parent may   *)
(* be missing, and the parent links may form a cycle.                      *)
(***************************************************************************)
LoadableLists ==
    UNION {{TodoList([k \in K |-> TodoItem(k, Join(AddWords), FALSE, pf[k],
                                           FormatTime(7))], MaxId) :
               pf \in [K -> {None} \cup {Some(p) : p \in 1..MaxId}]} :
           K \in SUBSET (1..(MaxId - 1))}

InitLoaded ==
    /\ file \in {SaveTodos(t) : t \in LoadableLists}
    /\ last = [NoInvocation EXCEPT !.fbefore = file, !.after = LoadTodos(file)]
    /\ issued = <<>>
    /\ inserted = 0
    /\ Idle

SpecLoaded == InitLoaded /\ [][Next]_vars

(***************************************************************************)
(* The program started on a file load_todos cannot use: no file, a file it *)
(* cannot read, or contents that are no TodoList.  The malformed contents  *)
(* are a saved list of two tasks with one thing damaged, and the empty     *)
(* file.                                                                   *)
(***************************************************************************)
SampleList ==
    TodoList(Insert(Insert(<<>>, 1, TodoItem(1, Join(AddWords), TRUE, None,
                                             FormatTime(7))),
                    2, TodoItem(2, Join(SubWords), FALSE, Some(1),
                                FormatTime(7))),
             3)

\* The document of SampleList with the member of key 2 replaced by m.
Damaged(m) ==
    [ToJson(SampleList) EXCEPT
        !.items = {x \in @ : x.key # ToDec(2)} \cup {m}]

MalformedDocs ==
    LET second == JsonMember(2, SampleList.items[2])
    IN  {NoDoc,
         [ToJson(SampleList) EXCEPT !.next_id = JsonNull],
         [ToJson(SampleList) EXCEPT !.next_id = JsonString("3")],
         Damaged([second EXCEPT !.key = <<"x">>]),
         Damaged([second EXCEPT !.key = <<"0", "2">>]),
         Damaged([second EXCEPT !.id = JsonString("2")]),
         Damaged([second EXCEPT !.completed = JsonNumber(0)]),
         Damaged([second EXCEPT !.parent_id = JsonString("1")]),
         Damaged([second EXCEPT !.text = JsonNull])}

UnusableFiles ==
    {Absent}
    \cup {[exists |-> TRUE, readable |-> TRUE, doc |-> d, extra |-> 0] :
             d \in MalformedDocs}
    \cup {[exists |-> TRUE, readable |-> TRUE, doc |-> ToJson(SampleList),
           extra |-> 1]}
    \cup {[exists |-> TRUE, readable |-> FALSE, doc |-> ToJson(SampleList),
           extra |-> 0]}

InitUnusable ==
    /\ file \in UnusableFiles
    /\ last = [NoInvocation EXCEPT !.fbefore = file]
    /\ issued = <<>>
    /\ inserted = 0
    /\ Idle

SpecUnusable == InitUnusable /\ [][Next]_vars

(***************************************************************************)
(* Two invocations at once on one file.  Nothing locks the file, so the    *)
(* steps of the two interleave freely: load_todos, then the command on the *)
(* list in memory, then save_todos, which is fs::write: File::create       *)
(* (open, create, truncate) and then write_all on the handle it got.  The  *)
(* file is first built by add, sub and done invocations that run alone.    *)
(***************************************************************************)
\* The commands of the two invocations.
RaceArgvs ==
    {<<Prog, "add">> \o AddWords,
     <<Prog, "add">> \o SubWords,
     <<Prog, "sub", ToDec(1)>> \o SubWords,
     <<Prog, "done", ToDec(1)>>,
     <<Prog, "delete", ToDec(1)>>}

\* The history while the two invocations run.
Racing == [NoInvocation EXCEPT !.what = "racing"]

\* load_todos and the command, up to its call of save_todos; an invocation
\* that does not save ends here.
RaceLoad ==
    \E p \in Procs, argv \in RaceArgvs, now \in Times :
        \E todos \in {LoadTodos(file)} :
            \E r \in {Main(argv, todos, now)} :
                /\ pc = "idle"
                /\ race.proc[p].pc = "start"
                /\ Inserting(r) => todos.next_id <= MaxId
                /\ race' = [race EXCEPT
                       !.proc[p] = [pc |-> IF r.saved THEN "loaded" ELSE "done",
                                    argv |-> argv, todos |-> todos,
                                    fresh |-> ~race.saving, r |-> r],
                       !.start = IF race = NoRace THEN file ELSE @]
                /\ last' = Racing
                /\ UNCHANGED <<file, issued, inserted, pc, mem, stack, retval>>

\* File::create in save_todos.
RaceCreate ==
    \E p \in Procs :
        /\ race.proc[p].pc = "loaded"
        /\ file' = Truncated
        /\ race' = [race EXCEPT
               !.proc[p].pc = "created",
               !.saving = TRUE,
               !.overlap = @ \/ \E q \in Procs : race.proc[q].pc = "created"]
        /\ UNCHANGED <<last, issued, inserted, pc, mem, stack, retval>>

\* write_all in save_todos, and the end of the invocation.
RaceWrite ==
    \E p \in Procs :
        /\ race.proc[p].pc = "created"
        /\ file' = WriteAll(file, ToJson(race.proc[p].r.todos))
        /\ race' = [race EXCEPT !.proc[p].pc = "done", !.wrote = Append(@, p)]
        /\ UNCHANGED <<last, issued, inserted, pc, mem, stack, retval>>

NextRace ==
    \/ Add
    \/ Sub
    \/ Done
    \/ RaceLoad
    \/ RaceCreate
    \/ RaceWrite

SpecRace == Init /\ [][NextRace]_vars

(***************************************************************************)
(* The claims.                                                             *)
(***************************************************************************)
\* The list the last invocation loaded, the list it ended with, and the list
\* the next invocation will load.
Before == LoadTodos(last.fbefore)
After == last.after
Current == LoadTodos(file)

\* The keys of items whose parent_id is in S, and S.
RECURSIVE Closure(_, _)
Closure(items, S) ==
    LET T == S \cup {k \in DOMAIN items : \E p \in S : items[k].parent_id = Some(p)}
    IN  IF T = S THEN S ELSE Closure(items, T)

\* The descendants of id at every depth.
Descendants(items, id) == Closure(items, {id}) \ {id}

\* The last invocation called delete_item, complete_item or uncomplete_item
\* (it had a well-formed id argument).
Called(arm) ==
    last.arm = arm /\ last.what \notin {"missing_arg", "invalid_id", "running"}

\* C1. delete(id) on an existing id returns true (the command reports the
\* deletion and saves); afterwards neither id nor any descendant of id at
\* any depth is in the collection, in memory or as persisted, and no
\* remaining task has a parent_id equal to a removed id.
C1_DeleteCascades ==
    (Called("delete") /\ last.arg \in DOMAIN Before.items) =>
        LET gone == {last.arg} \cup Descendants(Before.items, last.arg)
        IN  /\ last.what = "deleted"
            /\ last.saved
            /\ \A t \in {After, Current} :
                 /\ gone \cap DOMAIN t.items = {}
                 /\ \A k \in DOMAIN t.items :
                      \A g \in gone : t.items[k].parent_id # Some(g)

\* A delete has removed a task together with a grandchild of it.
C1_Witness ==
    /\ Called("delete")
    /\ last.what = "deleted"
    /\ \E k \in Descendants(Before.items, last.arg) :
          /\ Before.items[k].parent_id # Some(last.arg)
          /\ k \notin DOMAIN Current.items

\* C2. next_id is 1 plus the number of successful insertions, is greater
\* than every id ever assigned, and no id is assigned twice, the ids of
\* deleted tasks included; every task of the collection holds an id that
\* was assigned.
C2_IdsNeverReused ==
    /\ Current.next_id = 1 + inserted
    /\ Len(issued) = inserted
    /\ \A i \in 1..Len(issued) : issued[i] < Current.next_id
    /\ \A i, j \in 1..Len(issued) : i # j => issued[i] # issued[j]
    /\ \A k \in DOMAIN Current.items :
         \E i \in 1..Len(issued) : issued[i] = k /\ Current.items[k].id = k

\* An insertion has followed the deletion of a task.
C2_Witness ==
    /\ last.what \in {"added", "added_sub"}
    /\ \E i \in 1..Len(issued) :
          issued[i] < last.id /\ issued[i] \notin DOMAIN After.items

\* C3. delete(id) with id not a key returns false, removes no task and
\* leaves every task and next_id unchanged, and the command does not save.
C3_DeleteMissingIsNoop ==
    (Called("delete") /\ last.arg \notin DOMAIN Before.items) =>
        /\ last.what = "not_found"
        /\ ~last.saved
        /\ After = Before
        /\ file = last.fbefore

\* C4. The file is written only by an add, sub, done, undone or delete that
\* succeeds; an invocation that ends on an error path, and a list, help or
\* no-verb invocation, leaves the file as it found it.
C4_SavedOnlyOnSuccess ==
    /\ (last.saved \/ file # last.fbefore) =>
          /\ last.arm \in {"add", "sub", "done", "undone", "delete"}
          /\ last.what \in {"added", "added_sub", "completed", "uncompleted",
                            "deleted"}
          /\ ~last.err
    /\ (last.err \/ last.arm \in {"none", "list", "help", "unknown"}) =>
          /\ ~last.saved
          /\ file = last.fbefore

\* A sub under a parent that does not exist has failed on a file that holds
\* tasks.
C4_Witness ==
    /\ last.err
    /\ last.what = "parent_not_found"
    /\ file.exists
    /\ DOMAIN Current.items # {}

\* C5. A sub whose parent id is not a key fails: no task is created, next_id
\* is not incremented and nothing is saved.  A sub whose parent id is a key
\* creates exactly one task, whose parent_id is that id.
C5_SubChecksParent ==
    Called("sub") =>
        IF last.arg \notin DOMAIN Before.items
        THEN /\ last.what = "parent_not_found"
             /\ After = Before
             /\ ~last.saved
             /\ file = last.fbefore
        ELSE /\ last.what = "added_sub"
             /\ last.id \notin DOMAIN Before.items
             /\ DOMAIN After.items = DOMAIN Before.items \cup {last.id}
             /\ After.items[last.id].parent_id = Some(last.arg)
             /\ \A k \in DOMAIN Before.items : After.items[k] = Before.items[k]
             /\ After.next_id = Before.next_id + 1
             /\ last.saved
             /\ Current = After

\* A sub has named a parent that is not in a collection that holds tasks.
C5_Witness ==
    /\ Called("sub")
    /\ last.arg \notin DOMAIN Before.items
    /\ DOMAIN Before.items # {}
    /\ last.what = "parent_not_found"

\* C6 as claimed: complete(id) then uncomplete(id) returns the collection
\* to the state it had before the two calls, whatever the completed flag was.
C6_DoneUndoneRestores ==
    last.pair.on => Current = LoadTodos(last.pair.start)

\* C6 as amended: complete(id) then uncomplete(id) leaves the collection as
\* it was before the two calls but for the task's completed flag, which is
\* false; the collection is back in its former state exactly when the task
\* was not completed before.
C6_DoneUndoneClearsFlag ==
    last.pair.on =>
        LET start == LoadTodos(last.pair.start)
        IN  /\ last.arg \in DOMAIN start.items
            /\ After = [start EXCEPT !.items[last.arg].completed = FALSE]
            /\ Current = After
            /\ (Current = start) <=> ~start.items[last.arg].completed

\* A done and then an undone have run on a task that was completed.
C6_Witness ==
    /\ last.pair.on
    /\ LoadTodos(last.pair.start).items[last.arg].completed

\* C7. complete(id) and uncomplete(id) return true exactly when id is in the
\* collection; on true they set that task's completed flag (to true, to
\* false) and change nothing else; on false the collection is unchanged; a
\* second application changes nothing more.
C7_FlagOnly ==
    \A arm \in {"done", "undone"} :
        Called(arm) =>
            LET found == last.arg \in DOMAIN Before.items
                flag == (arm = "done")
                again == IF flag THEN CompleteItem(After, last.arg)
                                 ELSE UncompleteItem(After, last.arg)
            IN  /\ found <=> last.what = (IF flag THEN "completed" ELSE "uncompleted")
                /\ ~found => last.what = "not_found" /\ After = Before
                /\ found => After = [Before EXCEPT !.items[last.arg].completed = flag]
                /\ again = [todos |-> After, ret |-> found]

\* A done has completed one task of several.
C7_Witness ==
    /\ Called("done")
    /\ last.what = "completed"
    /\ ~Before.items[last.arg].completed
    /\ Cardinality(DOMAIN Before.items) >= 2

\* C8. Every task whose parent_id is Some(p) has p among the keys of the
\* collection and p smaller than its own id, so no parent reference is
\* orphaned and the parent links form no cycle.
C8_ParentsExist ==
    \A t \in {Current, After} :
        \A k \in DOMAIN t.items :
            /\ t.items[k].id = k
            /\ t.items[k].parent_id # None =>
                  /\ t.items[k].parent_id[1] \in DOMAIN t.items
                  /\ t.items[k].parent_id[1] < k

\* A delete has left a task with a parent in the collection.
C8_Witness ==
    /\ last.what = "deleted"
    /\ \E k \in DOMAIN Current.items : Current.items[k].parent_id # None

\* The delete arm run step by step ends as the delete arm run in one step,
\* whatever the order in which the loops take the sub_items.
DeleteStepsAgree ==
    (pc = "idle" /\ Called("delete")) =>
        LET r == AfterDelete(DeleteItem(Before, last.arg), last.arg)
        IN  /\ last.what = r.what
            /\ last.saved = r.saved
            /\ After = r.todos

\* C9. delete(id) terminates, for an id that exists or not and at any depth
\* of the hierarchy: a running delete_item returns to the delete arm, and
\* never by exhausting the stack.
C9_DeleteTerminates ==
    /\ [](last.what # "stack_overflow")
    /\ (pc = "deleting") ~> (pc = "idle")

\* delete_item, run step by step, has returned from a call on a task with a
\* child and a grandchild.
C9_Witness ==
    /\ pc = "idle"
    /\ last.arm = "delete"
    /\ last.what = "deleted"
    /\ Cardinality(Descendants(Before.items, last.arg)) >= 2
    /\ \E k \in DOMAIN Before.items :
          /\ Before.items[k].parent_id # None
          /\ Before.items[k].parent_id # Some(last.arg)
          /\ Before.items[k].parent_id[1] \in Descendants(Before.items, last.arg)

\* C10. Saving a collection and then loading it gives the same collection:
\* the list the next invocation loads is the list this invocation saved.
C10_RoundTrip ==
    last.saved =>
        /\ file.exists
        /\ FromJson(file.doc).ok
        /\ Current = After

\* A collection with a completed task and a sub-item has been saved.
C10_Witness ==
    /\ last.saved
    /\ \E k \in DOMAIN After.items : After.items[k].completed
    /\ \E k \in DOMAIN After.items : After.items[k].parent_id # None
    /\ \E k \in DOMAIN After.items : After.items[k].parent_id = None

\* The file load_todos finds is absent, unreadable or no TodoList.
Unusable(f) == ~f.exists \/ ~f.readable \/ ~FromJson(f.doc).ok \/ f.extra > 0

\* C11. load never fails: on a file that is absent, unreadable or malformed
\* the invocation runs on the empty collection with next_id = 1 and reports
\* no error of its own (a list prints the empty list, a command that needs a
\* task finds none); a mutating command that then succeeds is an add of
\* task 1, and the file it writes holds that task alone and next_id = 2.
C11_LoadNeverFails ==
    (last.what \notin {"none", "running"} /\ Unusable(last.fbefore)) =>
        /\ Before = New
        /\ last.arm \in {"none", "list"} =>
              last.what = "listed" /\ ~last.err /\ After = New
        /\ last.arm = "help" => ~last.err
        /\ last.err => /\ last.what \in {"missing_arg", "invalid_id", "not_found",
                                        "parent_not_found", "unknown_command",
                                        "save_failed"}
                       /\ file = last.fbefore
        /\ last.saved =>
              /\ last.what = "added"
              /\ last.id = 1
              /\ DOMAIN After.items = {1}
              /\ After.items[1].id = 1
              /\ After.items[1].parent_id = None
              /\ After.next_id = 2
              /\ file.exists
              /\ file.doc = ToJson(After)

\* An add has succeeded on a file whose contents did not parse and that
\* held tasks: the file now holds the one new task.
C11_Witness ==
    /\ last.what = "added"
    /\ last.saved
    /\ last.fbefore.exists
    /\ last.fbefore.readable
    /\ ~FromJson(last.fbefore.doc).ok
    /\ last.fbefore.extra = 0
    /\ \E m \in last.fbefore.doc.items : MemberOk(m)
    /\ Current = After
    /\ DOMAIN Current.items = {1}

\* The elements of a sequence, and whether the ids of a sequence of tasks
\* ascend strictly.
Range(seq) == {seq[i] : i \in DOMAIN seq}

Ascending(seq) == \A i \in 1..(Len(seq) - 1) : seq[i].id < seq[i + 1].id

\* The tasks of t whose parent_id is o.
WithParent(t, o) == {t.items[k] : k \in {j \in DOMAIN t.items : t.items[j].parent_id = o}}

\* The parent ids a query may name: every id of the model, 0 and one more.
ParentIds == 0..(MaxId + 1)

\* C12. After any sequence of commands roots() is exactly the tasks with no
\* parent_id and children(p) exactly the tasks whose parent_id is p, each in
\* strictly ascending order of id, whatever the order the map iterates in;
\* every task is in exactly one of roots() and the children(q), for one q;
\* a task inserted by sub under p is in children(p) and not in roots().
C12_RootsAndChildren ==
    /\ \A t \in {After, Current} :
          /\ Range(GetRootItems(t)) = WithParent(t, None)
          /\ Ascending(GetRootItems(t))
          /\ \A v \in Orders(WithParent(t, None)) : SortByKey(v) = GetRootItems(t)
          /\ \A p \in ParentIds :
                /\ Range(GetSubItems(t, p)) = WithParent(t, Some(p))
                /\ Ascending(GetSubItems(t, p))
                /\ \A v \in Orders(WithParent(t, Some(p))) :
                      SortByKey(v) = GetSubItems(t, p)
          /\ \A k \in DOMAIN t.items :
                LET q == {p \in ParentIds : t.items[k] \in Range(GetSubItems(t, p))}
                IN  IF t.items[k] \in Range(GetRootItems(t))
                    THEN q = {}
                    ELSE Cardinality(q) = 1
    /\ last.what = "added_sub" =>
          /\ After.items[last.id] \in Range(GetSubItems(After, last.arg))
          /\ After.items[last.id] \notin Range(GetRootItems(After))

\* A sub has inserted a second child under a task; it is the last of the
\* children.
C12_Witness ==
    /\ last.what = "added_sub"
    /\ Len(GetSubItems(After, last.arg)) >= 2
    /\ GetSubItems(After, last.arg)[Len(GetSubItems(After, last.arg))].id = last.id
    /\ Len(GetRootItems(After)) >= 1

\* The ids from the root above the task of key k down to k.
RECURSIVE Path(_, _)
Path(t, k) ==
    IF t.items[k].parent_id = None THEN <<k>>
    ELSE Append(Path(t, t.items[k].parent_id[1]), k)

\* The path a comes before the path b in the pre-order: a is a proper
\* prefix of b, or a holds the smaller id where the two first differ.
PathBefore(a, b) ==
    \/ Len(a) < Len(b) /\ SubSeq(b, 1, Len(a)) = a
    \/ \E i \in 1..Len(a) :
          /\ i <= Len(b)
          /\ a[i] < b[i]
          /\ SubSeq(a, 1, i - 1) = SubSeq(b, 1, i - 1)

\* n spaces.
RECURSIVE Spaces(_)
Spaces(n) == IF n = 0 THEN "" ELSE " " \o Spaces(n - 1)

\* The lines out are the pre-order traversal of the list t.
PreOrder(t, out) ==
    IF WithParent(t, None) = {} THEN out = <<NoTodosLine>>
    ELSE /\ \A i \in DOMAIN out : out[i] # NoTodosLine /\ out[i].id \in DOMAIN t.items
         /\ Len(out) = Cardinality(DOMAIN t.items)
         /\ \A k \in DOMAIN t.items : \E i \in DOMAIN out : out[i].id = k
         /\ \A i \in DOMAIN out :
               LET item == t.items[out[i].id]
               IN  /\ out[i].indent = Spaces(2 * (Len(Path(t, item.id)) - 1))
                   /\ out[i].text = item.text
                   /\ out[i].status = "x" <=> item.completed
         /\ \A i, j \in DOMAIN out :
               i < j => PathBefore(Path(t, out[i].id), Path(t, out[j].id))

\* C13. On every collection reachable from the empty store, render prints
\* the pre-order traversal of the hierarchy: the roots in ascending order of
\* id, each task followed at once by the subtrees of its children in
\* ascending order of id, each line indented by two spaces for every
\* ancestor of its task; every task is on exactly one line, and the one
\* informational line is printed exactly when the collection has no root.
C13_DisplayPreOrder ==
    /\ PreOrder(Current, Display(Current))
    /\ last.what = "listed" => PreOrder(Before, last.shown)
    /\ last.what # "listed" => last.shown = <<>>

\* A list has printed a task of a later id before a task of an earlier id,
\* and a line with an indent.
C13_Witness ==
    /\ last.what = "listed"
    /\ \E i, j \in DOMAIN last.shown :
          i < j /\ last.shown[i].id > last.shown[j].id
    /\ \E i \in DOMAIN last.shown : last.shown[i].indent = "  "

\* The two invocations have ended.
RaceOver == \A p \in Procs : race.proc[p].pc = "done"

\* The invocation whose write_all came last.
LastWriter == race.wrote[Len(race.wrote)]

\* C14. When two invocations run at once on one file, each doing load,
\* mutate, save with no locking, the final file is exactly what the
\* invocation that saved last wrote; if both loaded before either saved, the
\* change of the earlier writer is absent from the final file: it holds what
\* the later writer made of the file the two started from, and of two adds,
\* both confirmed with one id, the task of the later writer alone.
C14_LastWriterWins ==
    (RaceOver /\ race.wrote # <<>>) =>
        /\ file = SaveTodos(race.proc[LastWriter].r.todos)
        /\ Current = race.proc[LastWriter].r.todos
        /\ (Len(race.wrote) = 2 /\ \A p \in Procs : race.proc[p].fresh) =>
              /\ Current = Main(race.proc[LastWriter].argv,
                                LoadTodos(race.start), 7).todos
              /\ (\A p \in Procs : race.proc[p].r.what = "added") =>
                    /\ race.proc[1].r.id = race.proc[2].r.id
                    /\ \A p \in Procs : ~race.proc[p].r.err
                    /\ DOMAIN Current.items =
                          DOMAIN LoadTodos(race.start).items
                              \cup {race.proc[LastWriter].r.id}
                    /\ Current.items[race.proc[LastWriter].r.id].text =
                          Join(SubSeq(race.proc[LastWriter].argv, 3,
                                      Len(race.proc[LastWriter].argv)))

\* The claim of C14 holds of the races in which no save began while the
\* other invocation was between its File::create and its write_all.
RaceWithoutOverlap == race.overlap \/ C14_LastWriterWins

\* Two adds of different texts have both loaded before either saved, and
\* both have saved.
RaceOfTwoAdds ==
    /\ RaceOver
    /\ Len(race.wrote) = 2
    /\ \A p \in Procs : race.proc[p].fresh /\ race.proc[p].r.what = "added"
    /\ race.proc[1].argv # race.proc[2].argv

\* C15. delete(id) removes exactly the subtree rooted at id: the tasks that
\* are neither id nor a descendant of id stay in the collection with every
\* field unchanged, no other task remains or appears, and next_id is
\* unchanged; the list the delete saves is that list.
C15_DeleteRemovesSubtreeOnly ==
    Called("delete") =>
        LET gone == {last.arg} \cup Descendants(Before.items, last.arg)
            kept == DOMAIN Before.items \ gone
        IN  /\ DOMAIN After.items = kept
            /\ \A k \in kept : After.items[k] = Before.items[k]
            /\ After.next_id = Before.next_id
            /\ last.saved => Current = After
            /\ ~last.saved => Current = Before

\* A delete has removed a task and a descendant of it, the task issued
\* last among them, and has left another task.
C15_Witness ==
    /\ Called("delete")
    /\ last.what = "deleted"
    /\ Descendants(Before.items, last.arg) # {}
    /\ Before.next_id - 1 \in Descendants(Before.items, last.arg)
    /\ DOMAIN After.items # {}

\* C16. A successful add or sub grows the collection by exactly one task,
\* created with completed = false under a key that is its own id; it does
\* not overwrite, remove or alter a task that was there, in any sequence of
\* invocations in which each loads what the one before saved; every key of
\* the collection is the id of its task.
C16_AddGrowsByOne ==
    /\ \A k \in DOMAIN Current.items : Current.items[k].id = k
    /\ last.what \in {"added", "added_sub"} =>
          /\ last.id \notin DOMAIN Before.items
          /\ DOMAIN After.items = DOMAIN Before.items \cup {last.id}
          /\ Cardinality(DOMAIN After.items) = Cardinality(DOMAIN Before.items) + 1
          /\ After.items[last.id].id = last.id
          /\ After.items[last.id].completed = FALSE
          /\ \A k \in DOMAIN Before.items : After.items[k] = Before.items[k]
          /\ last.saved
          /\ Current = After

\* An add has followed a delete, on a collection that held a completed
\* task.
C16_Witness ==
    /\ last.what = "added"
    /\ Cardinality(DOMAIN Before.items) < Before.next_id - 1
    /\ \E k \in DOMAIN Before.items : Before.items[k].completed

==========================================================================
